---- MODULE Spec2Model ----
(***************************************************************************)
(* Model of passwd/pwnam.c: de_username_to_uid and de_groupname_to_gid.    *)
(*                                                                         *)
(* Each function is modelled statement by statement; the program counter   *)
(* of a call names the source line it is about to execute.  The C library  *)
(* and the OS (sysconf, realloc, free, getpwnam_r, getgrnam_r) are the     *)
(* environment: what they answer during one call is fixed by the record    *)
(* env[t] chosen when the call starts.                                     *)
(*                                                                         *)
(* Integer widths: size_t is SizeBits wide and long has the same width     *)
(* (as on ILP32 and LP64, where the comparison `sz > buflen` is done in    *)
(* the unsigned type).  SizeBits = 16 is the smallest width C allows for   *)
(* size_t, so the constant 1024 of the source is kept as it is.            *)
(***************************************************************************)
EXTENDS Integers, Sequences, FiniteSets, TLC

\* ---------------------------------------------------------------- bounds
SizeBits == 16
MaxCalls == 2
MaxFault == 2

\* ------------------------------------------------------- program constants
InitBufLen == 1024
ERANGE == 34
EIO == 5

Pow2(n) == 2 ^ n
SizeMod == Pow2(SizeBits)
PTRDIFF_MAX == Pow2(SizeBits - 1) - 1
\* more lookups than any call can make: starting from 1024 or more, a call
\* makes at most SizeBits - 11 lookups before the doubled request exceeds
\* PTRDIFF_MAX
MaxAttempts == SizeBits

Threads == {"t1", "t2"}
Caller == "t1"
NULL == <<>>

\* ------------------------------------------------------------ environment
Names == {"root", "daemon", "ghost"}
UserDb == [n \in {"root", "daemon"} |-> IF n = "root" THEN 0 ELSE 1]
GroupDb == [n \in {"root", "daemon"} |-> IF n = "root" THEN 0 ELSE 2]

\* what sysconf may answer: -1 is "no suggested size"
Hints == {-1, 0, 2048, 20000}
\* the buffer size below which the lookup answers ERANGE
Needs == {512, 3000, 30000}
\* failAt = k > 0: the allocator is out of memory at the k-th realloc of the call
\* errAt  = k > 0: the k-th lookup of the call fails with EIO
Envs == [hint : Hints, need : Needs, failAt : 0..MaxFault, errAt : 0..MaxFault]
ConcNames == {"root", "daemon", "ghost"}
ConcEnvs == [hint : {-1, 0}, need : {512, 3000}, failAt : {0, 2}, errAt : {0, 1}]
NoEnv == [hint |-> 0, need |-> 0, failAt |-> 0, errAt |-> 0]
\* contents of the caller's output locations before the first call
OldIds == {40}
\* contents of the uninitialised record `p`
Junk == {55}

VARIABLES pc, kind, name, env, calls, pre,
          buflen, buf, ec, sz, pp, p,
          ret, uidOut, gidOut, writes, heap, attempts, lens

callVars == <<kind, name, env, calls, pre>>
locals == <<buflen, buf, ec, sz, pp, p>>
outs == <<uidOut, gidOut, writes>>
hist == <<attempts, lens>>
vars == <<pc, kind, name, env, calls, pre, buflen, buf, ec, sz, pp, p,
          ret, uidOut, gidOut, writes, heap, attempts, lens>>

\* ---------------------------------------------------------- C arithmetic
\* conversion of a long to size_t
ToSizeT(x) == x % SizeMod

\* buflen += 1024: the buffer grows by a fixed step
GrowLinear(n) == (n + InitBufLen) % SizeMod

\* the retry leaves buflen as it is
NoGrow(n) == n

\* buflen *= 2 on a size_t
Double(n) == (n * 2) % SizeMod

\* lines 16-18: sz = sysconf(...); if (sz > buflen) buflen = sz;
\* both operands of > are converted to the unsigned type
AfterHint(s, n) == IF ToSizeT(s) > n THEN ToSizeT(s) ELSE n

\* ------------------------------------------------------------ C library
\* the block a call's buf points to while it is allocated
Block(t) == <<t, calls[t]>>

\* realloc(buf, n) returns non-NULL: no object is larger than PTRDIFF_MAX, and
\* the allocator may be out of memory
ReallocOK(t, n) ==
    /\ n >= 1
    /\ n <= PTRDIFF_MAX
    /\ attempts[t] + 1 # env[t].failAt

\* status of get{pw,gr}nam_r(name, &p, buf, buflen, &pp)
Status(t) ==
    IF attempts[t] + 1 = env[t].errAt THEN EIO
    ELSE IF buflen[t] < env[t].need THEN ERANGE
    ELSE 0

\* --------------------------------------------------------------- Init
Init ==
    /\ pc = [t \in Threads |-> "idle"]
    /\ kind = [t \in Threads |-> "none"]
    /\ name = [t \in Threads |-> ""]
    /\ env = [t \in Threads |-> NoEnv]
    /\ calls = [t \in Threads |-> 0]
    /\ pre = [t \in Threads |-> 0]
    /\ buflen = [t \in Threads |-> 0]
    /\ buf = [t \in Threads |-> NULL]
    /\ ec = [t \in Threads |-> 0]
    /\ sz = [t \in Threads |-> 0]
    /\ pp = [t \in Threads |-> FALSE]
    /\ p = [t \in Threads |-> 0]
    /\ ret = [t \in Threads |-> 0]
    /\ uidOut \in [Threads -> OldIds]
    /\ gidOut \in [Threads -> OldIds]
    /\ writes = [t \in Threads |-> 0]
    /\ heap = {}
    /\ attempts = [t \in Threads |-> 0]
    /\ lens = [t \in Threads |-> <<>>]

\* ------------------------------------------------- entry (lines 9-14, 39-44)
\* the frame of a new call: buflen = 1024, buf = NULL, pp = NULL; p, ec and sz
\* are not initialised
Enter(t, k, nm, e, j) ==
    /\ pc[t] = "idle"
    /\ pc' = [pc EXCEPT ![t] = "L16"]
    /\ kind' = [kind EXCEPT ![t] = k]
    /\ name' = [name EXCEPT ![t] = nm]
    /\ env' = [env EXCEPT ![t] = e]
    /\ calls' = [calls EXCEPT ![t] = @ + 1]
    /\ pre' = [pre EXCEPT ![t] = IF k = "user" THEN uidOut[t] ELSE gidOut[t]]
    /\ buflen' = [buflen EXCEPT ![t] = InitBufLen]
    /\ buf' = [buf EXCEPT ![t] = NULL]
    /\ pp' = [pp EXCEPT ![t] = FALSE]
    /\ p' = [p EXCEPT ![t] = j]
    /\ ec' = [ec EXCEPT ![t] = 0]
    /\ sz' = [sz EXCEPT ![t] = 0]
    /\ ret' = [ret EXCEPT ![t] = 0]
    /\ writes' = [writes EXCEPT ![t] = 0]
    /\ attempts' = [attempts EXCEPT ![t] = 0]
    /\ lens' = [lens EXCEPT ![t] = <<>>]
    /\ UNCHANGED <<uidOut, gidOut, heap>>

\* a single-threaded caller making one call after another
CallUser(t) ==
    /\ t = Caller
    /\ calls[t] < MaxCalls
    /\ \E nm \in Names, e \in Envs, j \in Junk : Enter(t, "user", nm, e, j)

CallGroup(t) ==
    /\ t = Caller
    /\ calls[t] < MaxCalls
    /\ \E nm \in Names, e \in Envs, j \in Junk : Enter(t, "group", nm, e, j)

\* independent threads, each making one call
CallUserConc(t) ==
    /\ calls[t] = 0
    /\ \E nm \in ConcNames, e \in ConcEnvs, j \in Junk : Enter(t, "user", nm, e, j)

CallGroupConc(t) ==
    /\ calls[t] = 0
    /\ \E nm \in ConcNames, e \in ConcEnvs, j \in Junk : Enter(t, "group", nm, e, j)

\* the caller takes the result; the frame is gone
Return(t) ==
    /\ pc[t] = "ret"
    /\ pc' = [pc EXCEPT ![t] = "idle"]
    /\ kind' = [kind EXCEPT ![t] = "none"]
    /\ name' = [name EXCEPT ![t] = ""]
    /\ env' = [env EXCEPT ![t] = NoEnv]
    /\ pre' = [pre EXCEPT ![t] = 0]
    /\ buflen' = [buflen EXCEPT ![t] = 0]
    /\ buf' = [buf EXCEPT ![t] = NULL]
    /\ pp' = [pp EXCEPT ![t] = FALSE]
    /\ p' = [p EXCEPT ![t] = 0]
    /\ ec' = [ec EXCEPT ![t] = 0]
    /\ sz' = [sz EXCEPT ![t] = 0]
    /\ ret' = [ret EXCEPT ![t] = 0]
    /\ writes' = [writes EXCEPT ![t] = 0]
    /\ attempts' = [attempts EXCEPT ![t] = 0]
    /\ lens' = [lens EXCEPT ![t] = <<>>]
    /\ UNCHANGED <<calls, uidOut, gidOut, heap>>

\* ------------------------------------------------ de_username_to_uid
\* lines 16-18
U_Sysconf(t) ==
    /\ pc[t] = "L16" /\ kind[t] = "user"
    /\ sz' = [sz EXCEPT ![t] = env[t].hint]
    /\ buflen' = [buflen EXCEPT ![t] = AfterHint(env[t].hint, buflen[t])]
    /\ pc' = [pc EXCEPT ![t] = "L21"]
    /\ UNCHANGED <<callVars, buf, ec, pp, p, ret, outs, heap, hist>>

\* lines 21-23: buf = realloc(buf, buflen); if (!buf) return -1;
\* a failed realloc leaves the old block allocated
U_Realloc(t) ==
    /\ pc[t] = "L21" /\ kind[t] = "user"
    /\ IF ReallocOK(t, buflen[t])
         THEN /\ buf' = [buf EXCEPT ![t] = Block(t)]
              /\ heap' = heap \cup {Block(t)}
              /\ pc' = [pc EXCEPT ![t] = "L24"]
              /\ ret' = ret
         ELSE /\ buf' = [buf EXCEPT ![t] = NULL]
              /\ heap' = heap
              /\ pc' = [pc EXCEPT ![t] = "ret"]
              /\ ret' = [ret EXCEPT ![t] = -1]
    /\ UNCHANGED <<callVars, buflen, ec, sz, pp, p, outs, hist>>

\* the lookup answers in one static record shared by all callers, as the
\* non-reentrant getpwnam does
U_LookupStatic(t) ==
    /\ pc[t] = "L24" /\ kind[t] = "user"
    /\ attempts[t] < MaxAttempts
    /\ attempts' = [attempts EXCEPT ![t] = @ + 1]
    /\ lens' = [lens EXCEPT ![t] = Append(@, buflen[t])]
    /\ ec' = [ec EXCEPT ![t] = Status(t)]
    /\ pp' = [pp EXCEPT ![t] = Status(t) = 0 /\ name[t] \in DOMAIN UserDb]
    /\ p' = IF Status(t) = 0 /\ name[t] \in DOMAIN UserDb
              THEN [u \in Threads |-> UserDb[name[t]]] ELSE p
    /\ pc' = [pc EXCEPT ![t] = "L25"]
    /\ UNCHANGED <<callVars, buflen, buf, sz, ret, outs, heap>>

\* line 24: ec = getpwnam_r(name, &p, buf, buflen, &pp);
U_Lookup(t) ==
    /\ pc[t] = "L24" /\ kind[t] = "user"
    /\ attempts[t] < MaxAttempts
    /\ attempts' = [attempts EXCEPT ![t] = @ + 1]
    /\ lens' = [lens EXCEPT ![t] = Append(@, buflen[t])]
    /\ ec' = [ec EXCEPT ![t] = Status(t)]
    /\ pp' = [pp EXCEPT ![t] = Status(t) = 0 /\ name[t] \in DOMAIN UserDb]
    /\ p' = [p EXCEPT ![t] = IF Status(t) = 0 /\ name[t] \in DOMAIN UserDb
                               THEN UserDb[name[t]] ELSE @]
    /\ pc' = [pc EXCEPT ![t] = "L25"]
    /\ UNCHANGED <<callVars, buflen, buf, sz, ret, outs, heap>>

\* if (ec != 0) { buflen *= 2; goto again; }: every error is retried
U_RetryAnyError(t) ==
    /\ pc[t] = "L25" /\ kind[t] = "user"
    /\ ec[t] # 0
    /\ buflen' = [buflen EXCEPT ![t] = Double(@)]
    /\ pc' = [pc EXCEPT ![t] = "L21"]
    /\ UNCHANGED <<callVars, buf, ec, sz, pp, p, ret, outs, heap, hist>>

\* if (ec == ERANGE) { free(buf); return -1; }: no retry
U_RetryGivesUp(t) ==
    /\ pc[t] = "L25" /\ kind[t] = "user"
    /\ ec[t] = ERANGE
    /\ heap' = heap \ {buf[t]}
    /\ ret' = [ret EXCEPT ![t] = -1]
    /\ pc' = [pc EXCEPT ![t] = "ret"]
    /\ UNCHANGED <<callVars, locals, outs, hist>>

\* lines 25-28: if (ec == ERANGE) { buflen *= 2; goto again; }
U_Retry(t) ==
    /\ pc[t] = "L25" /\ kind[t] = "user"
    /\ ec[t] = ERANGE
    /\ buflen' = [buflen EXCEPT ![t] = Double(@)]
    /\ pc' = [pc EXCEPT ![t] = "L21"]
    /\ UNCHANGED <<callVars, buf, ec, sz, pp, p, ret, outs, heap, hist>>

\* *uid = p.pw_uid is done before the test of ec and pp
U_FailStores(t) ==
    /\ pc[t] = "L25" /\ kind[t] = "user"
    /\ ec[t] # ERANGE
    /\ ec[t] # 0 \/ ~pp[t]
    /\ uidOut' = [uidOut EXCEPT ![t] = p[t]]
    /\ heap' = heap \ {buf[t]}
    /\ ret' = [ret EXCEPT ![t] = -1]
    /\ pc' = [pc EXCEPT ![t] = "ret"]
    /\ UNCHANGED <<callVars, locals, gidOut, writes, hist>>

\* lines 29-32: if (ec != 0 || !pp) { free(buf); return -1; }
U_Fail(t) ==
    /\ pc[t] = "L25" /\ kind[t] = "user"
    /\ ec[t] # ERANGE
    /\ ec[t] # 0 \/ ~pp[t]
    /\ heap' = heap \ {buf[t]}
    /\ ret' = [ret EXCEPT ![t] = -1]
    /\ pc' = [pc EXCEPT ![t] = "ret"]
    /\ UNCHANGED <<callVars, locals, outs, hist>>

\* line 34: *uid = p.pw_uid;
U_Store(t) ==
    /\ pc[t] = "L25" /\ kind[t] = "user"
    /\ ec[t] # ERANGE
    /\ ~(ec[t] # 0 \/ ~pp[t])
    /\ uidOut' = [uidOut EXCEPT ![t] = p[t]]
    /\ writes' = [writes EXCEPT ![t] = @ + 1]
    /\ pc' = [pc EXCEPT ![t] = "L35"]
    /\ UNCHANGED <<callVars, locals, ret, gidOut, heap, hist>>

\* lines 35-36: free(buf); return 0;
U_Release(t) ==
    /\ pc[t] = "L35" /\ kind[t] = "user"
    /\ heap' = heap \ {buf[t]}
    /\ ret' = [ret EXCEPT ![t] = 0]
    /\ pc' = [pc EXCEPT ![t] = "ret"]
    /\ UNCHANGED <<callVars, locals, outs, hist>>

\* ------------------------------------------------ de_groupname_to_gid
\* lines 46-48
G_Sysconf(t) ==
    /\ pc[t] = "L16" /\ kind[t] = "group"
    /\ sz' = [sz EXCEPT ![t] = env[t].hint]
    /\ buflen' = [buflen EXCEPT ![t] = AfterHint(env[t].hint, buflen[t])]
    /\ pc' = [pc EXCEPT ![t] = "L21"]
    /\ UNCHANGED <<callVars, buf, ec, pp, p, ret, outs, heap, hist>>

\* lines 51-53
G_Realloc(t) ==
    /\ pc[t] = "L21" /\ kind[t] = "group"
    /\ IF ReallocOK(t, buflen[t])
         THEN /\ buf' = [buf EXCEPT ![t] = Block(t)]
              /\ heap' = heap \cup {Block(t)}
              /\ pc' = [pc EXCEPT ![t] = "L24"]
              /\ ret' = ret
         ELSE /\ buf' = [buf EXCEPT ![t] = NULL]
              /\ heap' = heap
              /\ pc' = [pc EXCEPT ![t] = "ret"]
              /\ ret' = [ret EXCEPT ![t] = -1]
    /\ UNCHANGED <<callVars, buflen, ec, sz, pp, p, outs, hist>>

\* line 54: ec = getgrnam_r(name, &p, buf, buflen, &pp);
G_Lookup(t) ==
    /\ pc[t] = "L24" /\ kind[t] = "group"
    /\ attempts[t] < MaxAttempts
    /\ attempts' = [attempts EXCEPT ![t] = @ + 1]
    /\ lens' = [lens EXCEPT ![t] = Append(@, buflen[t])]
    /\ ec' = [ec EXCEPT ![t] = Status(t)]
    /\ pp' = [pp EXCEPT ![t] = Status(t) = 0 /\ name[t] \in DOMAIN GroupDb]
    /\ p' = [p EXCEPT ![t] = IF Status(t) = 0 /\ name[t] \in DOMAIN GroupDb
                               THEN GroupDb[name[t]] ELSE @]
    /\ pc' = [pc EXCEPT ![t] = "L25"]
    /\ UNCHANGED <<callVars, buflen, buf, sz, ret, outs, heap>>

\* the group function grows its buffer by a fixed step
G_RetryLinear(t) ==
    /\ pc[t] = "L25" /\ kind[t] = "group"
    /\ ec[t] = ERANGE
    /\ buflen' = [buflen EXCEPT ![t] = GrowLinear(@)]
    /\ pc' = [pc EXCEPT ![t] = "L21"]
    /\ UNCHANGED <<callVars, buf, ec, sz, pp, p, ret, outs, heap, hist>>

\* lines 55-58
G_Retry(t) ==
    /\ pc[t] = "L25" /\ kind[t] = "group"
    /\ ec[t] = ERANGE
    /\ buflen' = [buflen EXCEPT ![t] = Double(@)]
    /\ pc' = [pc EXCEPT ![t] = "L21"]
    /\ UNCHANGED <<callVars, buf, ec, sz, pp, p, ret, outs, heap, hist>>

\* lines 59-62
G_Fail(t) ==
    /\ pc[t] = "L25" /\ kind[t] = "group"
    /\ ec[t] # ERANGE
    /\ ec[t] # 0 \/ ~pp[t]
    /\ heap' = heap \ {buf[t]}
    /\ ret' = [ret EXCEPT ![t] = -1]
    /\ pc' = [pc EXCEPT ![t] = "ret"]
    /\ UNCHANGED <<callVars, locals, outs, hist>>

\* line 64: *gid = p.gr_gid;
G_Store(t) ==
    /\ pc[t] = "L25" /\ kind[t] = "group"
    /\ ec[t] # ERANGE
    /\ ~(ec[t] # 0 \/ ~pp[t])
    /\ gidOut' = [gidOut EXCEPT ![t] = p[t]]
    /\ writes' = [writes EXCEPT ![t] = @ + 1]
    /\ pc' = [pc EXCEPT ![t] = "L35"]
    /\ UNCHANGED <<callVars, locals, ret, uidOut, heap, hist>>

\* lines 65-66
G_Release(t) ==
    /\ pc[t] = "L35" /\ kind[t] = "group"
    /\ heap' = heap \ {buf[t]}
    /\ ret' = [ret EXCEPT ![t] = 0]
    /\ pc' = [pc EXCEPT ![t] = "ret"]
    /\ UNCHANGED <<callVars, locals, outs, hist>>

\* ------------------------------------------------------- specifications
Step(t) ==
    \/ U_Sysconf(t) \/ U_Realloc(t) \/ U_Lookup(t) \/ U_Retry(t)
    \/ U_Fail(t) \/ U_Store(t) \/ U_Release(t)
    \/ G_Sysconf(t) \/ G_Realloc(t) \/ G_Lookup(t) \/ G_Retry(t)
    \/ G_Fail(t) \/ G_Store(t) \/ G_Release(t)

Next == \E t \in Threads : CallUser(t) \/ CallGroup(t) \/ Step(t) \/ Return(t)

Spec == Init /\ [][Next]_vars

\* independent threads calling concurrently
NextConc == \E t \in Threads : CallUserConc(t) \/ CallGroupConc(t) \/ Step(t)

SpecConc == Init /\ [][NextConc]_vars

\* de_username_to_uid (t1) and de_groupname_to_gid (t2) entered side by side
\* against an environment that answers both the same way
InitPair ==
    /\ pc = [t \in Threads |-> "L16"]
    /\ kind = [t \in Threads |-> IF t = Caller THEN "user" ELSE "group"]
    /\ name \in [Threads -> Names]
    /\ \E e \in Envs : env = [t \in Threads |-> e]
    /\ calls = [t \in Threads |-> 1]
    /\ \E o \in OldIds : /\ pre = [t \in Threads |-> o]
                         /\ uidOut = [t \in Threads |-> o]
                         /\ gidOut = [t \in Threads |-> o]
    /\ buflen = [t \in Threads |-> InitBufLen]
    /\ buf = [t \in Threads |-> NULL]
    /\ ec = [t \in Threads |-> 0]
    /\ sz = [t \in Threads |-> 0]
    /\ pp = [t \in Threads |-> FALSE]
    /\ \E j \in Junk : p = [t \in Threads |-> j]
    /\ ret = [t \in Threads |-> 0]
    /\ writes = [t \in Threads |-> 0]
    /\ heap = {}
    /\ attempts = [t \in Threads |-> 0]
    /\ lens = [t \in Threads |-> <<>>]

NextPair == \E t \in Threads : Step(t)

SpecPair == InitPair /\ [][NextPair]_vars

\* a call, once entered, keeps executing until it returns
SpecFair == Init /\ [][Next]_vars /\ \A t \in Threads : WF_vars(Step(t))

\* ------------------------------------------------------------ vocabulary
\* the OS database a call of kind k consults
Db(k) == IF k = "user" THEN UserDb ELSE GroupDb

\* the caller's output location of the call of t
Out(t) == IF kind[t] = "user" THEN uidOut[t] ELSE gidOut[t]

Returned(t) == pc[t] = "ret"
Exists(t) == name[t] \in DOMAIN Db(kind[t])
Max(a, b) == IF a > b THEN a ELSE b

\* memory is never exhausted and the OS reports no error during the call of t
Healthy(t) == env[t].failAt = 0 /\ env[t].errAt = 0

\* doubling from `start` reaches the record size of t with a buffer an
\* allocator can provide
FitsFrom(t, start) ==
    \E k \in 0..SizeBits : /\ start * Pow2(k) >= env[t].need
                           /\ start * Pow2(k) <= PTRDIFF_MAX

\* the call of kind k on name nm run alone against environment e, the output
\* location holding old: its return value, the output location afterwards and
\* the buffer lengths of its lookups
RECURSIVE AloneFrom(_, _, _, _, _, _, _)
AloneFrom(k, nm, e, old, len, i, ls) ==
    IF ~(len >= 1 /\ len <= PTRDIFF_MAX /\ i # e.failAt)
      THEN [ret |-> -1, out |-> old, lens |-> ls]
    ELSE IF i = e.errAt
      THEN [ret |-> -1, out |-> old, lens |-> Append(ls, len)]
    ELSE IF len < e.need
      THEN AloneFrom(k, nm, e, old, Double(len), i + 1, Append(ls, len))
    ELSE IF nm \in DOMAIN Db(k)
      THEN [ret |-> 0, out |-> Db(k)[nm], lens |-> Append(ls, len)]
    ELSE [ret |-> -1, out |-> old, lens |-> Append(ls, len)]

Alone(k, nm, e, old) == AloneFrom(k, nm, e, old, AfterHint(e.hint, InitBufLen), 1, <<>>)

\* ----------------------------------------------------------------- claims

\* C1: for every name that has an entry in the OS database, the call returns 0
\* and the output location holds the identifier the database records for it
\* (memory is not exhausted, the OS reports no error, and the record fits a
\* buffer that doubling from max(1024, hint) reaches).
C1_ExistingNameResolves ==
    \A t \in Threads :
        (/\ Returned(t) /\ Exists(t) /\ Healthy(t)
         /\ FitsFrom(t, Max(InitBufLen, env[t].hint)))
            => (ret[t] = 0 /\ Out(t) = Db(kind[t])[name[t]])

\* C2: when a call returns, the buffer it allocated is no longer allocated.
C2_BufferReleasedAtReturn ==
    \A t \in Threads : Returned(t) => Block(t) \notin heap

\* C3: a lookup that reports no entry, or an error other than ERANGE, is the
\* last lookup of the call: the call's next step returns -1; and every call
\* whose name is absent from the database returns -1.
C3_FinalStatusReturnsFailure ==
    [][\A t \in Threads :
        /\ (/\ pc[t] = "L25" /\ ec[t] # ERANGE /\ (ec[t] # 0 \/ ~pp[t])
            /\ pc'[t] # pc[t])
              => (pc'[t] = "ret" /\ ret'[t] = -1 /\ attempts'[t] = attempts[t])
        /\ (pc'[t] = "ret" /\ name'[t] \notin DOMAIN Db(kind'[t]))
              => ret'[t] = -1]_vars

C3_Witness ==
    \E t \in Threads :
        /\ Returned(t) /\ ~Exists(t) /\ ret[t] = -1
        /\ attempts[t] = 2 /\ ec[t] = 0 /\ ~pp[t] /\ buf[t] # NULL

\* C4: buffer growth is transparent.  For an existing name whose first lookup
\* reported ERANGE: a call whose last lookup had a large enough buffer and no
\* error returns 0 with the recorded identifier; with memory not exhausted and
\* no OS error the call gets to that lookup; and a call never returns failure
\* on an ERANGE status with its buffer allocated.
C4_GrowthIsTransparent ==
    \A t \in Threads :
        Returned(t) =>
            /\ (/\ Exists(t) /\ attempts[t] >= 2
                /\ lens[t][attempts[t]] >= env[t].need
                /\ attempts[t] # env[t].errAt)
                  => (ret[t] = 0 /\ Out(t) = Db(kind[t])[name[t]])
            /\ (/\ Exists(t) /\ attempts[t] >= 1 /\ lens[t][1] < env[t].need
                /\ Healthy(t) /\ FitsFrom(t, lens[t][1]))
                  => (/\ ret[t] = 0 /\ Out(t) = Db(kind[t])[name[t]]
                      /\ attempts[t] >= 2)
            /\ (ret[t] = -1 /\ buf[t] # NULL) => ec[t] # ERANGE

C4_Witness ==
    \E t \in Threads :
        /\ Returned(t) /\ Exists(t) /\ ret[t] = 0
        /\ attempts[t] >= 3 /\ lens[t][1] < env[t].need
        /\ Out(t) = Db(kind[t])[name[t]]

\* C5: within one call each lookup after the first is given exactly twice the
\* buffer length of the lookup before it, which is strictly more.
C5_RetryDoublesLength ==
    \A t \in Threads :
        \A i \in 1..(Len(lens[t]) - 1) :
            /\ lens[t][i + 1] = 2 * lens[t][i]
            /\ lens[t][i + 1] > lens[t][i]

C5_Witness ==
    \E t \in Threads :
        /\ Len(lens[t]) >= 4
        /\ lens[t][4] * 2 > PTRDIFF_MAX

\* C6: a call that runs concurrently with another returns what it returns when
\* run alone: the same value, the same output and the same lookups; and it
\* leaves the other output location of its caller alone.
C6_ConcurrentAsAlone ==
    \A t \in Threads :
        Returned(t) =>
            /\ [ret |-> ret[t], out |-> Out(t), lens |-> lens[t]]
                 = Alone(kind[t], name[t], env[t], pre[t])
            /\ kind[t] = "user" => gidOut[t] \in OldIds
            /\ kind[t] = "group" => uidOut[t] \in OldIds

C6_Witness ==
    \E t \in Threads, u \in Threads :
        /\ pc[t] = "L25" /\ pp[t] /\ ec[t] = 0
        /\ Returned(u) /\ ret[u] = 0 /\ attempts[u] >= 2
        /\ Out(u) # p[t]

\* C7: de_username_to_uid and de_groupname_to_gid, run against environments
\* that answer the same way, make the same lookups with the same buffer
\* lengths, and given the same matched record return the same value and
\* store the same identifier.
SameRecord(t, u) ==
    /\ Exists(t) <=> Exists(u)
    /\ Exists(t) => Db(kind[t])[name[t]] = Db(kind[u])[name[u]]

C7_GroupAsUser ==
    \A t \in Threads, u \in Threads :
        (kind[t] = "user" /\ kind[u] = "group" /\ env[t] = env[u]) =>
            /\ \A i \in 1..Len(lens[t]) : i <= Len(lens[u]) => lens[t][i] = lens[u][i]
            /\ (Returned(t) /\ Returned(u)) => lens[t] = lens[u]
            /\ (Returned(t) /\ Returned(u) /\ SameRecord(t, u))
                  => (ret[t] = ret[u] /\ uidOut[t] = gidOut[u] /\ writes[t] = writes[u])

C7_Witness ==
    \E t \in Threads, u \in Threads :
        /\ kind[t] = "user" /\ kind[u] = "group" /\ env[t] = env[u]
        /\ Returned(t) /\ Returned(u) /\ SameRecord(t, u)
        /\ ret[t] = 0 /\ ret[u] = 0 /\ Len(lens[u]) >= 3

\* C8: every call that is entered returns, with 0 or -1, after at most
\* SizeBits - 11 lookups.
C8_EveryCallReturns ==
    \A t \in Threads :
        /\ [](Returned(t) => ret[t] \in {0, -1})
        /\ [](attempts[t] <= SizeBits - 11)
        /\ (pc[t] = "L16") ~> Returned(t)

C8_Witness ==
    \E t \in Threads : Returned(t) /\ attempts[t] = SizeBits - 11

\* C9: the buffer length of the first lookup of a call is max(1024, hint), hint
\* being what sysconf answered; with hint = -1 it is 1024.
C9_FirstLengthIsMaxOfHint ==
    \A t \in Threads :
        (pc[t] \in {"L21", "L24"} /\ attempts[t] = 0)
            => buflen[t] = Max(InitBufLen, env[t].hint)

\* C10: a call that returns -1 has not written its output location, which
\* holds what it held before the call; a call that returns 0 has written it
\* exactly once.
C10_OutputOnlyOnSuccess ==
    \A t \in Threads :
        Returned(t) =>
            /\ ret[t] = -1 => (Out(t) = pre[t] /\ writes[t] = 0)
            /\ ret[t] = 0 => writes[t] = 1

C10_Witness ==
    \E t \in Threads :
        /\ Returned(t) /\ ret[t] = -1 /\ attempts[t] >= 1
        /\ pre[t] \notin OldIds /\ Out(t) = pre[t]

====
